---- MODULE Spec2Model ----
(***************************************************************************)
(* A model of app/main.py of iiif-content-search: the /search/1 handler    *)
(* that asks Solr for highlighted snippets and aligns every highlighted     *)
(* phrase with the per-word OCR hitboxes of the document.                   *)
(*                                                                         *)
(* A Python str is a tuple of one-character strings, so that split, strip,  *)
(* lower and int are computed character by character as Python does.        *)
(***************************************************************************)
EXTENDS Integers, Sequences, FiniteSets, TLC

(***************************************************************************)
(* The state of one request.                                                *)
(*   pc        where search_1 is: "start", "docs" (line 104), "snippets"    *)
(*             (line 122), "scan" (line 145) or "done" (it returned)        *)
(*   q         whether the request carries a q parameter                    *)
(*   outcome   how the requests.get call ended; calls counts the calls      *)
(*   seen      the ids of the documents read from the answer so far         *)
(*   found     the i at which the scan of line 158 stopped at its break,    *)
(*             -1 when it ran to its end                                    *)
(*   base      len(annotations) when the snippet being scanned was opened   *)
(*   response  what the handler returned                                    *)
(* The other variables are the handler's locals of the same names.  The     *)
(* documents and snippets of the answer are read one at a time, each drawn  *)
(* when the loop reaches it.                                                *)
(***************************************************************************)
VARIABLES pc, q, outcome, solr_data, calls, seen, doc_id, canvas_id, hitboxes,
          normalized_hitboxes, nsnippets, snippet, words_with_em, idx,
          phrase_words, found, base, annotations, hits, response

vars == <<pc, q, outcome, solr_data, calls, seen, doc_id, canvas_id, hitboxes,
          normalized_hitboxes, nsnippets, snippet, words_with_em, idx,
          phrase_words, found, base, annotations, hits, response>>

(***************************************************************************)
(* Bounds of the model.                                                     *)
(***************************************************************************)
\* hitbox records of one ordinary document
MaxHitboxes == 2
\* parse-tree nodes of one ordinary snippet
MaxNodes == 2
\* highlight snippets of one document
MaxSnippets == 1

(***************************************************************************)
(* Python built-ins used by the handler.                                    *)
(***************************************************************************)
None == <<>>

\* string.punctuation, less the grave accent, which a TLA+ string cannot hold
\* and no input here contains
punctuation ==
    {"!", "\"", "#", "$", "%", "&", "'", "(", ")", "*", "+", ",", "-", ".",
     "/", ":", ";", "<", "=", ">", "?", "@", "[", "\\", "]", "^", "_",
     "{", "|", "}", "~"}

whitespace == {" ", "\t", "\n", "\r"}

ascii_uppercase ==
    <<"A", "B", "C", "D", "E", "F", "G", "H", "I", "J", "K", "L", "M",
      "N", "O", "P", "Q", "R", "S", "T", "U", "V", "W", "X", "Y", "Z">>

ascii_lowercase ==
    <<"a", "b", "c", "d", "e", "f", "g", "h", "i", "j", "k", "l", "m",
      "n", "o", "p", "q", "r", "s", "t", "u", "v", "w", "x", "y", "z">>

digits == <<"0", "1", "2", "3", "4", "5", "6", "7", "8", "9">>

\* str.lower() on one character
lower(c) ==
    IF \E k \in DOMAIN ascii_uppercase : ascii_uppercase[k] = c
    THEN ascii_lowercase[CHOOSE k \in DOMAIN ascii_uppercase : ascii_uppercase[k] = c]
    ELSE c

RECURSIVE lstrip(_)
\* str.lstrip(string.punctuation)
lstrip(s) ==
    IF s # <<>> /\ Head(s) \in punctuation THEN lstrip(Tail(s)) ELSE s

RECURSIVE rstrip(_)
\* str.rstrip(string.punctuation)
rstrip(s) ==
    IF s # <<>> /\ s[Len(s)] \in punctuation
    THEN rstrip(SubSeq(s, 1, Len(s) - 1))
    ELSE s

\* normalize(term): term.strip(string.punctuation).lower()
normalize(term) ==
    LET t == rstrip(lstrip(term))
    IN  [k \in 1..Len(t) |-> lower(t[k])]

RECURSIVE split_from(_, _, _)
split_from(s, cur, out) ==
    IF s = <<>>
    THEN IF cur = <<>> THEN out ELSE Append(out, cur)
    ELSE IF Head(s) \in whitespace
         THEN split_from(Tail(s), <<>>, IF cur = <<>> THEN out ELSE Append(out, cur))
         ELSE split_from(Tail(s), Append(cur, Head(s)), out)

\* str.split(): the maximal runs of non-whitespace characters, in order
split(s) == split_from(s, <<>>, <<>>)

\* " ".join(words)
RECURSIVE join(_)
join(words) ==
    IF words = <<>> THEN <<>>
    ELSE IF Len(words) = 1 THEN words[1]
    ELSE words[1] \o <<" ">> \o join(Tail(words))

\* "|" in val
has_bar(val) == \E k \in DOMAIN val : val[k] = "|"

\* val.split("|", 1): the text before and after the first "|"
split_bar(val) ==
    LET k == CHOOSE k \in DOMAIN val :
                 val[k] = "|" /\ \A j \in 1..(k - 1) : val[j] # "|"
    IN  <<SubSeq(val, 1, k - 1), SubSeq(val, k + 1, Len(val))>>

is_digit(c) == \E k \in DOMAIN digits : digits[k] = c

digit_value(c) == (CHOOSE k \in DOMAIN digits : digits[k] = c) - 1

all_digits(t) == t # <<>> /\ \A k \in DOMAIN t : is_digit(t[k])

\* whether int(t) returns (an optional sign, then decimal digits)
is_int(t) ==
    \/ all_digits(t)
    \/ t # <<>> /\ Head(t) \in {"+", "-"} /\ all_digits(Tail(t))

RECURSIVE digits_value(_)
digits_value(t) ==
    IF t = <<>> THEN 0
    ELSE 10 * digits_value(SubSeq(t, 1, Len(t) - 1)) + digit_value(t[Len(t)])

\* int(t), for a t that is_int
to_int(t) ==
    IF Head(t) = "-" THEN 0 - digits_value(Tail(t))
    ELSE IF Head(t) = "+" THEN digits_value(Tail(t))
    ELSE digits_value(t)

\* x1, y1, x2, y2 = map(int, b.split()) succeeds
four_ints(b) ==
    LET f == split(b)
    IN  Len(f) = 4 /\ \A k \in 1..4 : is_int(f[k])

\* the values of x1, y1, x2, y2 = map(int, b.split())
int_fields(b) ==
    LET f == split(b)
    IN  [k \in 1..4 |-> to_int(f[k])]

min(list) == CHOOSE x \in {list[k] : k \in DOMAIN list} :
                 \A k \in DOMAIN list : x <= list[k]

max(list) == CHOOSE x \in {list[k] : k \in DOMAIN list} :
                 \A k \in DOMAIN list : x >= list[k]

(***************************************************************************)
(* convert_bbox_to_xywh: the string "x,y,w,h" (here the four numbers), or   *)
(* None when the text is not four integers.  Inverted coordinates are not   *)
(* looked at.                                                               *)
(***************************************************************************)
convert_bbox_to_xywh(bbox_str) ==
    IF four_ints(bbox_str)
    THEN LET v == int_fields(bbox_str)
         IN  <<v[1], v[2], v[3] - v[1], v[4] - v[2]>>
    ELSE None

(***************************************************************************)
(* query_solr_with_highlighting: what the one requests.get call yields.     *)
(* A timeout, a transport error, a non-success status (raise_for_status)    *)
(* and a body that is not JSON (requests' JSONDecodeError) are all          *)
(* RequestException: the function returns None.                             *)
(***************************************************************************)
SolrOutcomes == {"ok", "timeout", "transport_error", "bad_status", "bad_body"}

SolrFailures == SolrOutcomes \ {"ok"}

\* the function's two results: the parsed body (its documents are read
\* one by one below), or None
SolrData == [kind |-> "data"]

SolrNone == [kind |-> "None"]

\* the function without its raise_for_status(): an error page is read as data
query_solr_without_raise_for_status(o) ==
    IF o \in {"ok", "bad_status"} THEN SolrData ELSE SolrNone

query_solr_with_highlighting(o) ==
    IF o = "ok" THEN SolrData ELSE SolrNone

(***************************************************************************)
(* The pieces of search_1.                                                  *)
(***************************************************************************)
\* the list comprehension of lines 114-117: every record with a "|", as
\* (normalized word, text after the first "|")
normalized_hitboxes_of(hbs) ==
    LET kept == SelectSeq(hbs, has_bar)
    IN  [k \in 1..Len(kept) |->
            <<normalize(split_bar(kept[k])[1]), split_bar(kept[k])[2]>>]

\* the words of one text, each with the same flag
tokens_of(text, flag) ==
    LET w == split(text)
    IN  [k \in 1..Len(w) |-> <<normalize(w[k]), flag>>]

RECURSIVE words_with_em_of(_)
\* lines 128-139 on the parse tree of a snippet.  The tree is a sequence of
\* top-level nodes, a text node or an <em> element holding one text node.
\* recursiveChildGenerator yields an <em> element and then the text node
\* inside it, which is a str as well.
words_with_em_of(soup) ==
    IF soup = <<>> THEN <<>>
    ELSE LET elem == Head(soup)
         IN  (IF elem.em
              THEN tokens_of(elem.text, TRUE) \o tokens_of(elem.text, FALSE)
              ELSE tokens_of(elem.text, FALSE))
             \o words_with_em_of(Tail(soup))

RECURSIVE phrase_end(_, _)
\* lines 149-151: idx (0-based) advanced past the run of highlighted words
phrase_end(words, i) ==
    IF i < Len(words) /\ words[i + 1][2] THEN phrase_end(words, i + 1) ELSE i

\* lines 159-160: the words of the window starting at i (0-based)
window_words(H, i, n) == [k \in 1..n |-> H[i + k][1]]

\* line 163
window_bboxes(H, i, n) == [k \in 1..n |-> H[i + k][2]]

RECURSIVE match_from(_, _, _)
\* lines 158-167 and the break of 206: the first i at which the words are
\* the phrase and every box converts; -1 when the loop ends without one
match_from(H, P, i) ==
    IF i > Len(H) - Len(P) THEN -1
    ELSE IF /\ window_words(H, i, Len(P)) = P
            /\ \A k \in 1..Len(P) :
                   convert_bbox_to_xywh(window_bboxes(H, i, Len(P))[k]) # None
         THEN i
         ELSE match_from(H, P, i + 1)

\* the scan with range(len(H) - len(P)): the last window is never tried
match_index_without_last_window(H, P) ==
    LET i == match_from(H, P, 0)
    IN  IF i = Len(H) - Len(P) THEN -1 ELSE i

match_index(H, P) == match_from(H, P, 0)

\* the box of the first word alone, in place of the union
union_xywh_first_box_only(bboxes) == convert_bbox_to_xywh(bboxes[1])

\* lines 169-187: the union of the boxes, as x, y, width, height
union_xywh(bboxes) ==
    LET v == [k \in DOMAIN bboxes |-> int_fields(bboxes[k])]
        xs == [k \in DOMAIN bboxes |-> v[k][1]]
        ys == [k \in DOMAIN bboxes |-> v[k][2]]
        xe == [k \in DOMAIN bboxes |-> v[k][3]]
        ye == [k \in DOMAIN bboxes |-> v[k][4]]
        union_x1 == min(xs)
        union_y1 == min(ys)
        union_x2 == max(xe)
        union_y2 == max(ye)
    IN  <<union_x1, union_y1, union_x2 - union_x1, union_y2 - union_y1>>

\* line 190: f"{url_root}/annotation/{doc_id}_{i}_{i+len(phrase_words)-1}";
\* the three parts can be read back from the text, so the id is the triple
anno_id_of(d, i, n) == <<d, i, i + n - 1>>

\* lines 158-206 with hits.append outside the "if": a phrase that matched
\* nowhere still appends a hit
phrase_result_hit_always(d, canvas, H, P) ==
    LET i == match_index(H, P)
    IN  IF i < 0
        THEN [error |-> FALSE, annotations |-> <<>>,
              hits |-> <<[annotations |-> <<anno_id_of(d, Len(H) - Len(P), Len(P))>>]>>]
        ELSE [error |-> FALSE,
              annotations |->
                  <<[id |-> anno_id_of(d, i, Len(P)),
                     chars |-> join(P),
                     on |-> <<canvas, union_xywh(window_bboxes(H, i, Len(P)))>>]>>,
              hits |-> <<[annotations |-> <<anno_id_of(d, i, Len(P))>>]>>]

\* lines 158-206 for one phrase: the annotation and the hit it appends, and
\* whether line 175 raises
phrase_result(d, canvas, H, P) ==
    LET i == match_index(H, P)
    IN  IF i < 0
        THEN [error |-> FALSE, annotations |-> <<>>, hits |-> <<>>]
        ELSE LET bboxes == window_bboxes(H, i, Len(P))
             IN  IF \E k \in DOMAIN bboxes : ~four_ints(bboxes[k])
                 THEN [error |-> TRUE, annotations |-> <<>>, hits |-> <<>>]
                 ELSE [error |-> FALSE,
                       annotations |->
                           <<[id |-> anno_id_of(d, i, Len(P)),
                              chars |-> join(P),
                              on |-> <<canvas, union_xywh(bboxes)>>]>>,
                       hits |-> <<[annotations |-> <<anno_id_of(d, i, Len(P))>>]>>]

(***************************************************************************)
(* The inputs drawn.                                                        *)
(***************************************************************************)
\* "A|0 0 4 9"
rec_A == <<"A", "|", "0", " ", "0", " ", "4", " ", "9">>
\* "a,|7 5 3 8": x2 < x1
rec_a_inverted == <<"a", ",", "|", "7", " ", "5", " ", "3", " ", "8">>
\* "a|5 x 9 9": the second coordinate is not an integer
rec_a_nonint == <<"a", "|", "5", " ", "x", " ", "9", " ", "9">>
\* "b|5 2 12 8"
rec_b == <<"b", "|", "5", " ", "2", " ", "1", "2", " ", "8">>
\* "junk": no "|"
rec_junk == <<"j", "u", "n", "k">>

RawChoices == {rec_A, rec_a_inverted, rec_a_nonint, rec_b, rec_junk}

HitboxLists == UNION {[1..n -> RawChoices] : n \in 0..MaxHitboxes}

\* the example of the specification
ExampleHitboxes ==
    << <<"T", "h", "e", "|", "0", " ", "0", " ", "1", "0", " ", "1", "0">>,
       <<"q", "u", "i", "c", "k", "|", "1", "2", " ", "0", " ", "3", "0", " ", "1", "0">>,
       <<"b", "r", "o", "w", "n", "|", "3", "2", " ", "0", " ", "5", "0", " ", "1", "0">>,
       <<"f", "o", "x", "|", "5", "2", " ", "0", " ", "7", "0", " ", "1", "0">> >>

\* 'The <em>quick brown</em> fox'
ExampleSnippet ==
    << [em |-> FALSE, text |-> <<"T", "h", "e", " ">>],
       [em |-> TRUE, text |-> <<"q", "u", "i", "c", "k", " ", "b", "r", "o", "w", "n">>],
       [em |-> FALSE, text |-> <<" ", "f", "o", "x">>] >>

\* 'A ', '<em>a</em>' and '<em>a, B</em>'
NodeChoices ==
    { [em |-> FALSE, text |-> <<"A", " ">>],
      [em |-> TRUE, text |-> <<"a">>],
      [em |-> TRUE, text |-> <<"a", ",", " ", "B">>] }

SnippetChoices == UNION {[1..n -> NodeChoices] : n \in 0..MaxNodes}

\* the ids of the documents of one answer: a single document, whose
\* hitboxes and snippets vary
DocIds == {"d1"}

\* canvas_id_ssi: missing (or empty), or the canvas
NoCanvas == ""

CanvasChoices == {NoCanvas, "canvas1"}

(***************************************************************************)
(* The request.                                                             *)
(***************************************************************************)
Init ==
    /\ pc = "start"
    /\ q \in BOOLEAN
    /\ outcome = "none"
    /\ solr_data = SolrNone
    /\ calls = 0
    /\ seen = {}
    /\ doc_id = ""
    /\ canvas_id = NoCanvas
    /\ hitboxes = <<>>
    /\ normalized_hitboxes = <<>>
    /\ nsnippets = 0
    /\ snippet = <<>>
    /\ words_with_em = <<>>
    /\ idx = 0
    /\ phrase_words = <<>>
    /\ found = -1
    /\ base = 0
    /\ annotations = <<>>
    /\ hits = <<>>
    /\ response = [status |-> 0]

\* lines 86-87
MissingQ ==
    /\ pc = "start"
    /\ ~q
    /\ pc' = "done"
    /\ response' = [status |-> 400, error |-> "Missing required query parameter 'q'"]
    /\ UNCHANGED <<q, outcome, solr_data, calls, seen, doc_id, canvas_id, hitboxes,
                   normalized_hitboxes, nsnippets, snippet, words_with_em, idx,
                   phrase_words, found, base, annotations, hits>>

\* lines 89-102: the one call, and the 503 when it returned None
QuerySolr ==
    /\ pc = "start"
    /\ q
    /\ \E o \in SolrOutcomes :
          /\ outcome' = o
          /\ solr_data' = query_solr_with_highlighting(o)
          /\ calls' = calls + 1
          /\ IF query_solr_with_highlighting(o) = SolrNone
             THEN /\ pc' = "done"
                  /\ response' = [status |-> 503, error |-> "Solr unavailable"]
             ELSE /\ pc' = "docs"
                  /\ UNCHANGED response
    /\ UNCHANGED <<q, seen, doc_id, canvas_id, hitboxes,
                   normalized_hitboxes, nsnippets, snippet, words_with_em, idx,
                   phrase_words, found, base, annotations, hits>>

\* lines 104-108: a document without a canvas or without highlighting
SkipDoc ==
    /\ pc = "docs"
    /\ \E d \in DocIds \ seen, c \in CanvasChoices, highlighted \in BOOLEAN :
          /\ c = NoCanvas \/ ~highlighted
          /\ seen' = seen \cup {d}
          /\ doc_id' = d
          /\ canvas_id' = c
    /\ UNCHANGED <<pc, q, outcome, solr_data, calls, hitboxes,
                   normalized_hitboxes, nsnippets, snippet, words_with_em, idx,
                   phrase_words, found, base, annotations, hits, response>>

\* lines 104-120: the next document, its hitboxes decoded
OpenDoc ==
    /\ pc = "docs"
    /\ \E d \in DocIds \ seen, c \in CanvasChoices \ {NoCanvas},
          hbs \in HitboxLists \cup {ExampleHitboxes} :
          /\ seen' = seen \cup {d}
          /\ doc_id' = d
          /\ canvas_id' = c
          /\ hitboxes' = hbs
          /\ normalized_hitboxes' = normalized_hitboxes_of(hbs)
    /\ nsnippets' = 0
    /\ pc' = "snippets"
    /\ UNCHANGED <<q, outcome, solr_data, calls, snippet, words_with_em, idx,
                   phrase_words, found, base, annotations, hits, response>>

\* lines 122-144: the next snippet of the document, tokenized.  phrase_words
\* and i are written (lines 153, 158) before they are read in the new
\* snippet: their old values are dead and are cleared here.
OpenSnippet ==
    /\ pc = "snippets"
    /\ nsnippets < MaxSnippets
    /\ \E s \in SnippetChoices \cup {ExampleSnippet} :
          /\ snippet' = s
          /\ words_with_em' = words_with_em_of(s)
    /\ nsnippets' = nsnippets + 1
    /\ idx' = 0
    /\ phrase_words' = <<>>
    /\ found' = -1
    /\ base' = Len(annotations)
    /\ pc' = "scan"
    /\ UNCHANGED <<q, outcome, solr_data, calls, seen, doc_id, canvas_id, hitboxes,
                   normalized_hitboxes, annotations, hits, response>>

\* line 122: no snippet is left
EndSnippets ==
    /\ pc = "snippets"
    /\ pc' = "docs"
    /\ UNCHANGED <<q, outcome, solr_data, calls, seen, doc_id, canvas_id, hitboxes,
                   normalized_hitboxes, nsnippets, snippet, words_with_em, idx,
                   phrase_words, found, base, annotations, hits, response>>

\* lines 145-146, 207-208: a word outside <em>
ScanPlain ==
    /\ pc = "scan"
    /\ idx < Len(words_with_em)
    /\ ~words_with_em[idx + 1][2]
    /\ idx' = idx + 1
    /\ UNCHANGED <<pc, q, outcome, solr_data, calls, seen, doc_id, canvas_id,
                   hitboxes, normalized_hitboxes, nsnippets, snippet, words_with_em,
                   phrase_words, found, base, annotations, hits, response>>

\* lines 145-206: a run of highlighted words, aligned with the hitboxes
ScanPhrase ==
    /\ pc = "scan"
    /\ idx < Len(words_with_em)
    /\ words_with_em[idx + 1][2]
    /\ LET end_idx == phrase_end(words_with_em, idx)
           P == [k \in 1..(end_idx - idx) |-> words_with_em[idx + k][1]]
           r == phrase_result(doc_id, canvas_id, normalized_hitboxes, P)
       IN  /\ phrase_words' = P
           /\ found' = match_index(normalized_hitboxes, P)
           /\ idx' = end_idx
           /\ annotations' = annotations \o r.annotations
           /\ hits' = hits \o r.hits
           /\ IF r.error
              THEN /\ pc' = "done"
                   /\ response' = [status |-> 500, error |-> "ValueError"]
              ELSE UNCHANGED <<pc, response>>
    /\ UNCHANGED <<q, outcome, solr_data, calls, seen, doc_id, canvas_id,
                   hitboxes, normalized_hitboxes, nsnippets, snippet, words_with_em,
                   base>>

\* line 145: the snippet is scanned.  snippet, words_with_em and idx are
\* written (lines 122, 129, 144) before they are read again: their values
\* are dead and are cleared here.
EndScan ==
    /\ pc = "scan"
    /\ idx >= Len(words_with_em)
    /\ pc' = "snippets"
    /\ snippet' = <<>>
    /\ words_with_em' = <<>>
    /\ idx' = 0
    /\ phrase_words' = <<>>
    /\ found' = -1
    /\ UNCHANGED <<q, outcome, solr_data, calls, seen, doc_id, canvas_id, hitboxes,
                   normalized_hitboxes, nsnippets, base, annotations, hits, response>>

\* lines 104, 210-222: no document is left
Respond ==
    /\ pc = "docs"
    /\ pc' = "done"
    /\ response' = [status |-> 200, hits |-> hits, resources |-> annotations]
    /\ UNCHANGED <<q, outcome, solr_data, calls, seen, doc_id, canvas_id, hitboxes,
                   normalized_hitboxes, nsnippets, snippet, words_with_em, idx,
                   phrase_words, found, base, annotations, hits>>

Next ==
    \/ MissingQ
    \/ QuerySolr
    \/ SkipDoc
    \/ OpenDoc
    \/ OpenSnippet
    \/ EndSnippets
    \/ ScanPlain
    \/ ScanPhrase
    \/ EndScan
    \/ Respond

Spec == Init /\ [][Next]_vars

(***************************************************************************)
(* What the properties below speak of.                                      *)
(***************************************************************************)
\* a phrase has been scanned: phrase_words and found are those of the last one
Scanned == phrase_words # <<>>

\* the words of P are the words of H[i..i+Len(P)), i counted from 0
Occurs(H, P, i) ==
    /\ i >= 0
    /\ i + Len(P) <= Len(H)
    /\ \A k \in 1..Len(P) : H[i + k][1] = P[k]

Occurrences(H, P) == {i \in 0..Len(H) : Occurs(H, P, i)}

\* every box of H[i..i+n) is four integers
Convertible(H, i, n) == \A k \in 1..n : four_ints(H[i + k][2])

\* x1 <= x2 and y1 <= y2 in a box that is four integers
Upright(b) == int_fields(b)[1] <= int_fields(b)[3] /\ int_fields(b)[2] <= int_fields(b)[4]

\* a raw record the specification calls well-formed
WellFormed(val) ==
    /\ has_bar(val)
    /\ four_ints(split_bar(val)[2])
    /\ Upright(split_bar(val)[2])

\* xywh is the union of the boxes B (each x1, y1, x2, y2): the least x1 and
\* y1, and the distance from them to the greatest x2 and y2
IsUnion(xywh, B) ==
    /\ \E b \in B : b[1] = xywh[1]
    /\ \A b \in B : b[1] >= xywh[1]
    /\ \E b \in B : b[2] = xywh[2]
    /\ \A b \in B : b[2] >= xywh[2]
    /\ \E b \in B : b[3] = xywh[1] + xywh[3]
    /\ \A b \in B : b[3] <= xywh[1] + xywh[3]
    /\ \E b \in B : b[4] = xywh[2] + xywh[4]
    /\ \A b \in B : b[4] <= xywh[2] + xywh[4]

\* xywh is the union of the boxes of H[i..i+n)
IsUnionOf(xywh, H, i, n) ==
    IsUnion(xywh, {int_fields(H[i + k][2]) : k \in 1..n})

\* the annotation appended for the phrase scanned last, when one was
LastAnnotation == annotations[Len(annotations)]

\* the document's hitboxes have been decoded
Decoded == pc \in {"snippets", "scan"}

RECURSIVE SpansOf(_, _)
\* the maximal runs of highlighted words of a token sequence, in order;
\* cur is the run being read
SpansOf(words, cur) ==
    IF words = <<>>
    THEN IF cur = <<>> THEN <<>> ELSE <<cur>>
    ELSE IF Head(words)[2]
         THEN SpansOf(Tail(words), Append(cur, Head(words)[1]))
         ELSE (IF cur = <<>> THEN <<>> ELSE <<cur>>) \o SpansOf(Tail(words), <<>>)

\* the spans scanned so far in the snippet
SpansScanned == SpansOf(SubSeq(words_with_em, 1, idx), <<>>)

Present(P) == Occurrences(normalized_hitboxes, P) # {}

RECURSIVE ResultsOf(_)
\* what the spans append, one after the other
ResultsOf(spans) ==
    IF spans = <<>> THEN [annotations |-> <<>>, hits |-> <<>>]
    ELSE LET r == phrase_result(doc_id, canvas_id, normalized_hitboxes, Head(spans))
             t == ResultsOf(Tail(spans))
         IN  [annotations |-> r.annotations \o t.annotations,
              hits |-> r.hits \o t.hits]

\* "quick brown"
QuickBrown == <<"q", "u", "i", "c", "k", " ", "b", "r", "o", "w", "n">>

(***************************************************************************)
(* C1: when the words of the phrase occur at several indices of the         *)
(* scanned hitbox sequence, the annotation emitted for the phrase is the    *)
(* one of the smallest such index; no later occurrence is reported.         *)
(* The code skips a window holding a box that is not four integers and      *)
(* reports a later occurrence.                                              *)
(***************************************************************************)
C1_FirstOccurrenceReported ==
    (Scanned /\ found >= 0 /\ Cardinality(Occurrences(normalized_hitboxes, phrase_words)) > 1)
        => /\ \A i \in Occurrences(normalized_hitboxes, phrase_words) : found <= i
           /\ \A i \in Occurrences(normalized_hitboxes, phrase_words) :
                  LastAnnotation.id[2] <= i

C3_ScansTheWellFormedRecords ==
    Decoded =>
        LET kept == SelectSeq(hitboxes, WellFormed)
        IN  /\ Len(normalized_hitboxes) = Len(kept)
            /\ \A k \in DOMAIN kept :
                   normalized_hitboxes[k] =
                       <<normalize(split_bar(kept[k])[1]), split_bar(kept[k])[2]>>

RECURSIVE OneTokenPerWord(_)
\* one token for every word of the snippet, highlighted when inside <em>
OneTokenPerWord(soup) ==
    IF soup = <<>> THEN <<>>
    ELSE LET w == split(Head(soup).text)
         IN  [k \in 1..Len(w) |-> <<normalize(w[k]), Head(soup).em>>]
             \o OneTokenPerWord(Tail(soup))

(***************************************************************************)
(* C4: the tokenizer yields exactly one token for every whitespace-         *)
(* separated word of the snippet, in order, matched exactly when the word   *)
(* is inside <em>.  The code yields a word inside <em> twice, matched and   *)
(* then unmatched.                                                          *)
(***************************************************************************)
C4_OneTokenPerWord ==
    pc = "scan" => words_with_em = OneTokenPerWord(snippet)

(***************************************************************************)
(* C5: the box of every annotation is the union of the boxes of the         *)
(* hitbox range its id names: x and y the least x1 and y1, width and        *)
(* height reaching the greatest x2 and y2; for one word it is the word's    *)
(* own box; and the example of the specification yields exactly one         *)
(* annotation, "quick brown" at (12, 0, 38, 10).                            *)
(***************************************************************************)
C5_UnionBoundingBox ==
    /\ \A n \in DOMAIN annotations :
           LET a == annotations[n]
               i == a.id[2]
               L == a.id[3] - a.id[2] + 1
               b == [k \in 1..L |-> int_fields(normalized_hitboxes[i + k][2])]
           IN  /\ L >= 1
               /\ i + L <= Len(normalized_hitboxes)
               /\ IsUnion(a.on[2], {b[k] : k \in 1..L})
               /\ L = 1 => a.on[2] = <<b[1][1], b[1][2], b[1][3] - b[1][1], b[1][4] - b[1][2]>>
    /\ (/\ pc = "scan"
        /\ idx = Len(words_with_em)
        /\ hitboxes = ExampleHitboxes
        /\ snippet = ExampleSnippet)
           => /\ Len(annotations) = base + 1
              /\ LastAnnotation.chars = QuickBrown
              /\ LastAnnotation.on = <<canvas_id, <<12, 0, 38, 10>>>>
              /\ Len(hits) = Len(annotations)

\* the example of the specification, scanned to its end
C5_Witness ==
    /\ hitboxes = ExampleHitboxes
    /\ snippet = ExampleSnippet
    /\ pc = "scan"
    /\ idx = Len(words_with_em)
    /\ Len(annotations) = base + 1
    /\ LastAnnotation.id = <<doc_id, 1, 2>>

(***************************************************************************)
(* C6: a span whose words occur nowhere as a contiguous run of the hitbox   *)
(* sequence (so every span longer than the sequence) appends no annotation  *)
(* and no hit and raises nothing, and the annotations and hits of the       *)
(* snippet are those of its other spans, in order, as if the span were      *)
(* not there.                                                               *)
(***************************************************************************)
C6_AbsentPhraseDropped ==
    /\ response.status # 500
    /\ (pc = "scan" /\ idx = Len(words_with_em)) =>
           LET others == ResultsOf(SelectSeq(SpansScanned, Present))
           IN  /\ SubSeq(annotations, base + 1, Len(annotations)) = others.annotations
               /\ SubSeq(hits, base + 1, Len(hits)) = others.hits
    /\ (Scanned /\ ~Present(phrase_words)) => found = -1

\* a span longer than the hitbox sequence was scanned, and a later span of
\* the snippet was annotated
C6_Witness ==
    /\ pc = "scan"
    /\ idx = Len(words_with_em)
    /\ Len(SpansScanned) = 2
    /\ Len(SpansScanned[1]) > Len(normalized_hitboxes)
    /\ ~Present(SpansScanned[1])
    /\ Present(SpansScanned[2])
    /\ Len(annotations) = base + 1
    /\ Len(hits) = Len(annotations)

(***************************************************************************)
(* C7: when the call to the index fails (timeout, transport error,          *)
(* non-success status, unparsable body) the request ends in the one         *)
(* "unavailable" outcome, with no annotation and no hit; no document is     *)
(* decoded, no snippet tokenized, and the call is made once.                *)
(***************************************************************************)
C7_IndexFailureIsTheWholeOutcome ==
    /\ calls <= 1
    /\ outcome \in SolrFailures =>
           /\ pc = "done"
           /\ calls = 1
           /\ response = [status |-> 503, error |-> "Solr unavailable"]
           /\ annotations = <<>>
           /\ hits = <<>>
           /\ seen = {}
           /\ normalized_hitboxes = <<>>
           /\ words_with_em = <<>>
           /\ ~Scanned

\* the index answered with a non-success status
C7_Witness ==
    /\ outcome = "bad_status"
    /\ pc = "done"
    /\ response.status = 503

(***************************************************************************)
(* C8: the box of every emitted annotation has width >= 0 and height >= 0.  *)
(* The code takes a record with x2 < x1 as it is.                           *)
(***************************************************************************)
C8_BoxIsNotNegative ==
    \A n \in DOMAIN annotations :
        annotations[n].on[2][3] >= 0 /\ annotations[n].on[2][4] >= 0

(***************************************************************************)
(* C9: the indices in an annotation's id are the positions, in the raw      *)
(* hitbox list of the document, of the first and last matched record: the   *)
(* raw records at those positions are the ones that were matched.  The code *)
(* counts positions among the records that hold a "|".                      *)
(***************************************************************************)
C9_IdNamesRawPositions ==
    \A n \in DOMAIN annotations :
        LET a == annotations[n]
            i == a.id[2]
            L == a.id[3] - a.id[2] + 1
        IN  \A k \in 1..L :
                /\ i + k <= Len(hitboxes)
                /\ has_bar(hitboxes[i + k])
                /\ normalize(split_bar(hitboxes[i + k])[1]) = split(a.chars)[k]
                /\ four_ints(split_bar(hitboxes[i + k])[2])

(***************************************************************************)
(* C10: in every response the annotation ids are pairwise distinct, and     *)
(* the k-th hit names exactly the k-th annotation.  The code aligns a       *)
(* phrase highlighted twice to the same first occurrence, twice.            *)
(***************************************************************************)
C10_DistinctIdsAndPairedHits ==
    response.status = 200 =>
        /\ \A m, n \in DOMAIN response.resources :
               m # n => response.resources[m]["id"] # response.resources[n]["id"]
        /\ Len(response.hits) = Len(response.resources)
        /\ \A n \in DOMAIN response.resources :
               response.hits[n].annotations = <<response.resources[n]["id"]>>

====
